---- MODULE Spec2Model ----
(***************************************************************************)
(* Model of the workflow engine's process execution core and of the two    *)
(* pipelines built on it:                                                  *)
(*   - shell.run         (src/unnamed/part_001, package shell)             *)
(*   - pipelines.Debug.Run      (src/pkg/pipelines/debug.go)               *)
(*   - pipelines.Debug.Execute  (src/unnamed/part_000)                     *)
(*   - shell.Options and its option functions (src/unnamed/part_001)       *)
(* Each is checked under its own specification (Spec, SpecDebugRun,        *)
(* SpecExecute, SpecOptions) while the variables of the others stay idle;  *)
(* FairSpec is Spec under the scheduling of the Go runtime, and            *)
(* SpecRunAndDebug runs shell.run and Debug.Run side by side.              *)
(***************************************************************************)
EXTENDS Integers, Sequences, FiniteSets, TLC

VARIABLES
    \* ---- shell.run ----
    cmd,        \* the exec.Cmd handed to run: the program it names
    o,          \* the Options value run works on (run holds a pointer to it)
    oIn,        \* the Options value as the caller built it (history)
    pc,         \* position of the goroutine that executes run
    ret,        \* the code run returned
    proc,       \* the child process: [state, status]
    ctxFired,   \* the caller's cancellation token has fired
    waitPc,     \* position of the background wait goroutine
    runError,   \* the variable runError of run
    doneChan,   \* the buffered channel doneChan (capacity 1)
    events,     \* history: what happened, in order
    selReady,   \* history: which cases were ready when the select chose
    slog,       \* the entries run wrote to the default logger
    \* ---- Debug.Run ----
    dpc,        \* position inside Debug.Run
    dryRunD,    \* d.DryRunEnabled
    codes,      \* exit code of every command invocation already made
    errs,       \* the variable errs of Debug.Run
    ranD,       \* history: the commands started so far, in order
    retD,       \* the error Debug.Run returned
    \* ---- Debug.Execute ----
    epc,        \* position of the goroutine that executes Execute
    task,       \* position of the two errgroup goroutines
    debugOutput,
    systemInfo,
    taskRet,    \* what each task returned: [out, err] (history)
    gErr,       \* errgroup.Group.err
    finished,   \* history: the order in which the tasks finished
    stdoutE,    \* what has been written to p.stdout, one entry per write
    retE,       \* the error Execute returned
    \* ---- Options.apply ----
    opts,       \* the Options value newOptions is filling
    applied     \* history: the option functions applied so far, in order

runVars == <<cmd, o, oIn, pc, ret, proc, ctxFired, waitPc, runError, doneChan, events,
            selReady, slog>>
debugVars == <<dpc, dryRunD, codes, errs, ranD, retD>>
execVars == <<epc, task, debugOutput, systemInfo, taskRet, gErr, finished, stdoutE, retE>>
optVars == <<opts, applied>>
vars == <<runVars, debugVars, execVars, optVars>>

(***************************************************************************)
(* Bounds of the model                                                     *)
(***************************************************************************)
\* child exit statuses 0..MaxPlainStatus are tried besides the ones around
\* the sentinel codes
MaxPlainStatus == 2

(***************************************************************************)
(* package shell: the exit-code taxonomy                                   *)
(***************************************************************************)
ExitOK == 0
ExitUnknown == 232
ExitContextCancel == 231
ExitKillFailure == 230

\* (*exec.ExitError).ExitCode() of a child that was ended by a signal
SignaledExitCode == -1

\* the terminal states a child process can reach on its own
ExitStatuses == (0 .. MaxPlainStatus) \cup {229, 230, 231, 232, 233, SignaledExitCode}

\* the programs an exec.Cmd may name; "nonexistent" can never be spawned
Programs == {"grype", "nonexistent"}

\* stream handles: "nil" is the unset handle
Streams(h) == {"nil", h}

\* the Options values a caller inside package shell can hand to run
OptionsValues ==
    [dryRunEnabled : BOOLEAN,
     stdin : Streams("in"), stdout : Streams("out"), stderr : Streams("err"),
     ctx : {"nil", "token"}]

NoError == [kind |-> "nil", code |-> 0]
NoProc == [state |-> "none", status |-> 0]
NotSelected == [ctx |-> FALSE, done |-> FALSE]

InitRun ==
    /\ cmd \in Programs
    /\ o \in OptionsValues
    /\ oIn = o
    /\ pc = "entry"
    /\ ret = ExitOK
    /\ proc = NoProc
    /\ ctxFired = FALSE
    /\ waitPc = "none"
    /\ runError = NoError
    /\ doneChan = <<>>
    /\ events = <<>>
    /\ selReady = NotSelected
    /\ slog = <<>>

IdleRun ==
    /\ cmd = "grype"
    /\ o = [dryRunEnabled |-> FALSE, stdin |-> "nil", stdout |-> "nil",
            stderr |-> "nil", ctx |-> "nil"]
    /\ oIn = o
    /\ pc = "idle"
    /\ ret = ExitOK
    /\ proc = NoProc
    /\ ctxFired = FALSE
    /\ waitPc = "none"
    /\ runError = NoError
    /\ doneChan = <<>>
    /\ events = <<>>
    /\ selReady = NotSelected
    /\ slog = <<>>

\* run, line 184: slog.Info("shell exec", "dry_run", ..., "command", ...)
ShellExec(dry, c) == [msg |-> "shell exec", dry_run |-> dry, command |-> c]

\* RunEntry without the dry-run exit
RunEntry_NoDryRunExit ==
    /\ pc = "entry"
    /\ slog' = Append(slog, ShellExec(o.dryRunEnabled, cmd))
    /\ pc' = "start"
    /\ events' = Append(events, "log")
    /\ UNCHANGED <<cmd, o, oIn, ret, proc, ctxFired, waitPc, runError, doneChan, selReady>>
    /\ UNCHANGED <<debugVars, execVars, optVars>>

\* RunEntry with the log entry written after the dry-run exit
RunEntry_LogAfterDryRun ==
    /\ pc = "entry"
    /\ IF o.dryRunEnabled
         THEN /\ pc' = "returned"
              /\ ret' = ExitOK
              /\ events' = Append(events, "return")
              /\ UNCHANGED slog
         ELSE /\ pc' = "start"
              /\ slog' = Append(slog, ShellExec(o.dryRunEnabled, cmd))
              /\ events' = Append(events, "log")
              /\ UNCHANGED ret
    /\ UNCHANGED <<cmd, o, oIn, proc, ctxFired, waitPc, runError, doneChan, selReady>>
    /\ UNCHANGED <<debugVars, execVars, optVars>>

\* run, lines 184-187: the log entry, then the dry-run exit
RunEntry ==
    /\ pc = "entry"
    /\ slog' = Append(slog, ShellExec(o.dryRunEnabled, cmd))
    /\ IF o.dryRunEnabled
         THEN /\ pc' = "returned"
              /\ ret' = ExitOK
              /\ events' = events \o <<"log", "return">>
         ELSE /\ pc' = "start"
              /\ events' = Append(events, "log")
              /\ UNCHANGED ret
    /\ UNCHANGED <<cmd, o, oIn, proc, ctxFired, waitPc, runError, doneChan, selReady>>
    /\ UNCHANGED <<debugVars, execVars, optVars>>

\* cmd.Start() cannot succeed for a binary that does not exist; for any other
\* program it may succeed or fail (permissions, resources)
StartOutcomes == IF cmd = "nonexistent" THEN {FALSE} ELSE BOOLEAN

\* RunStart with the error of cmd.Start() ignored
RunStart_IgnoreError ==
    /\ pc = "start"
    /\ \E ok \in StartOutcomes :
         /\ proc' = IF ok THEN [state |-> "running", status |-> 0] ELSE proc
         /\ events' = Append(events, IF ok THEN "start" ELSE "startfail")
    /\ pc' = "ctx"
    /\ UNCHANGED <<cmd, o, oIn, ret, ctxFired, waitPc, runError, doneChan,
                 selReady, slog>>
    /\ UNCHANGED <<debugVars, execVars, optVars>>

\* run, lines 189-195: wire the streams, spawn the process
RunStart ==
    /\ pc = "start"
    /\ \E ok \in StartOutcomes :
         IF ok
           THEN /\ proc' = [state |-> "running", status |-> 0]
                /\ pc' = "ctx"
                /\ events' = Append(events, "start")
                /\ UNCHANGED ret
           ELSE /\ pc' = "returned"
                /\ ret' = ExitUnknown
                /\ events' = events \o <<"startfail", "return">>
                /\ UNCHANGED proc
    /\ UNCHANGED <<cmd, o, oIn, ctxFired, waitPc, runError, doneChan, selReady, slog>>
    /\ UNCHANGED <<debugVars, execVars, optVars>>

\* RunDefaultCtx without the test for nil: every context is replaced
RunDefaultCtx_Always ==
    /\ pc = "ctx"
    /\ o' = [o EXCEPT !.ctx = "background"]
    /\ pc' = "go"
    /\ UNCHANGED <<cmd, oIn, ret, proc, ctxFired, waitPc, runError, doneChan,
                 events, selReady, slog>>
    /\ UNCHANGED <<debugVars, execVars, optVars>>

\* run, lines 196-198: a missing context becomes context.Background()
RunDefaultCtx ==
    /\ pc = "ctx"
    /\ o' = IF o.ctx = "nil" THEN [o EXCEPT !.ctx = "background"] ELSE o
    /\ pc' = "go"
    /\ UNCHANGED <<cmd, oIn, ret, proc, ctxFired, waitPc, runError, doneChan,
                 events, selReady, slog>>
    /\ UNCHANGED <<debugVars, execVars, optVars>>

\* RunGo without the go statement: nothing waits for the child
RunGo_NoGoroutine ==
    /\ pc = "go"
    /\ runError' = NoError
    /\ doneChan' = <<>>
    /\ pc' = "select"
    /\ UNCHANGED <<cmd, o, oIn, ret, proc, ctxFired, waitPc, events, selReady, slog>>
    /\ UNCHANGED <<debugVars, execVars, optVars>>

\* run, lines 199-204: make the channel, start the background wait goroutine
RunGo ==
    /\ pc = "go"
    /\ runError' = NoError
    /\ doneChan' = <<>>
    /\ waitPc' = "waiting"
    /\ pc' = "select"
    /\ UNCHANGED <<cmd, o, oIn, ret, proc, ctxFired, events, selReady, slog>>
    /\ UNCHANGED <<debugVars, execVars, optVars>>

\* <-o.ctx.Done() is ready: only the caller's token ever fires,
\* context.Background() never does
CtxDone == o.ctx = "token" /\ ctxFired

\* <-doneChan is ready
DoneReady == Len(doneChan) > 0

\* the cases of the select that are ready. A select with several ready cases
\* takes any one of them; a select that finds none ready takes the first
\* that becomes ready. Both are the choice, made at the time of the step,
\* between the actions RunSelectCancel and RunSelectDone.
Ready == [ctx |-> CtxDone, done |-> DoneReady]

\* cmd.Process.Kill(): once Wait has reaped the child the handle is released
\* and Kill reports an error; before that the signal may or may not be
\* delivered
KillOutcomes == IF waitPc \in {"sending", "finished"} THEN {FALSE} ELSE BOOLEAN

\* run, lines 207-211: the cancellation branch of the select
RunSelectCancel ==
    /\ pc = "select"
    /\ CtxDone
    /\ selReady' = Ready
    /\ \E ok \in KillOutcomes :
         IF ok
           THEN /\ proc' = IF proc.state = "running"
                             THEN [state |-> "exited", status |-> SignaledExitCode]
                             ELSE proc
                /\ pc' = "returned"
                /\ ret' = ExitContextCancel
                /\ events' = events \o <<"killok", "return">>
           ELSE /\ pc' = "returned"
                /\ ret' = ExitKillFailure
                /\ events' = events \o <<"killfail", "return">>
                /\ UNCHANGED proc
    /\ UNCHANGED <<cmd, o, oIn, ctxFired, waitPc, runError, doneChan, slog>>
    /\ UNCHANGED <<debugVars, execVars, optVars>>

\* WaitCode without the branch for *exec.ExitError
WaitCode_NoExitError(e) == IF e.kind # "nil" THEN ExitUnknown ELSE ExitOK

\* run, lines 213-222: the exit code for what cmd.Wait returned
WaitCode(e) ==
    IF e.kind = "exit" THEN e.code
    ELSE IF e.kind # "nil" THEN ExitUnknown
    ELSE ExitOK

\* run, lines 212-222: the completion branch of the select
RunSelectDone ==
    /\ pc = "select"
    /\ DoneReady
    /\ selReady' = Ready
    /\ doneChan' = Tail(doneChan)
    /\ pc' = "returned"
    /\ ret' = WaitCode(runError)
    /\ events' = events \o <<"recv", "return">>
    /\ UNCHANGED <<cmd, o, oIn, proc, ctxFired, waitPc, runError, slog>>
    /\ UNCHANGED <<debugVars, execVars, optVars>>

\* what cmd.Wait() returns for a child that ended with status s: an
\* *exec.ExitError unless the child succeeded, otherwise the error of the
\* stream copying (ioErr), otherwise nil
WaitResult(s, ioErr) ==
    IF s # 0 THEN [kind |-> "exit", code |-> s]
    ELSE IF ioErr THEN [kind |-> "other", code |-> 0]
    ELSE NoError

\* the goroutine, line 202: cmd.Wait() returns once the child has ended
WaitReturn ==
    /\ waitPc = "waiting"
    /\ proc.state = "exited"
    /\ \E ioErr \in BOOLEAN : runError' = WaitResult(proc.status, ioErr)
    /\ waitPc' = "sending"
    /\ UNCHANGED <<cmd, o, oIn, pc, ret, proc, ctxFired, doneChan, events,
                 selReady, slog>>
    /\ UNCHANGED <<debugVars, execVars, optVars>>

\* WaitSend on a channel without a buffer: the send needs run at its select
WaitSend_Unbuffered ==
    /\ waitPc = "sending"
    /\ pc = "select"
    /\ Len(doneChan) < 1
    /\ doneChan' = Append(doneChan, "done")
    /\ waitPc' = "finished"
    /\ UNCHANGED <<cmd, o, oIn, pc, ret, proc, ctxFired, runError, events,
                 selReady, slog>>
    /\ UNCHANGED <<debugVars, execVars, optVars>>

\* the goroutine, line 203: the send on the channel of capacity 1
WaitSend ==
    /\ waitPc = "sending"
    /\ Len(doneChan) < 1
    /\ doneChan' = Append(doneChan, "done")
    /\ waitPc' = "finished"
    /\ UNCHANGED <<cmd, o, oIn, pc, ret, proc, ctxFired, runError, events,
                 selReady, slog>>
    /\ UNCHANGED <<debugVars, execVars, optVars>>

\* environment: the child process ends on its own
ChildExit ==
    /\ proc.state = "running"
    /\ \E s \in ExitStatuses : proc' = [state |-> "exited", status |-> s]
    /\ events' = Append(events, "exit")
    /\ UNCHANGED <<cmd, o, oIn, pc, ret, ctxFired, waitPc, runError, doneChan,
                 selReady, slog>>
    /\ UNCHANGED <<debugVars, execVars, optVars>>

\* environment: the caller's cancellation token fires (at any time, also
\* before run is entered or after it has returned)
CtxFire ==
    /\ pc # "idle"
    /\ oIn.ctx = "token"
    /\ ~ctxFired
    /\ ctxFired' = TRUE
    /\ events' = Append(events, "fire")
    /\ UNCHANGED <<cmd, o, oIn, pc, ret, proc, waitPc, runError, doneChan,
                 selReady, slog>>
    /\ UNCHANGED <<debugVars, execVars, optVars>>

Next ==
    \/ RunEntry
    \/ RunStart
    \/ RunDefaultCtx
    \/ RunGo
    \/ RunSelectCancel
    \/ RunSelectDone
    \/ WaitReturn
    \/ WaitSend
    \/ ChildExit
    \/ CtxFire

(***************************************************************************)
(* pipelines.Debug.Run (src/pkg/pipelines/debug.go)                        *)
(***************************************************************************)
\* exit codes 0..MaxStepCode are tried for a command besides ExitUnknown
MaxStepCode == 1

\* the five command invocations of Debug.Run, in source order
Commands == <<"grype version", "syft version", "syft scan-image",
              "podman version", "docker version">>
NumMandatory == 3
NumCommands == 5

NilErr == [step |-> "nil", code |-> 0]

\* the exit codes one command invocation can end with: run returns ExitOK
\* for every dry run (part_001, lines 185-187)
StepCodes(dry) == IF dry THEN {ExitOK} ELSE (0 .. MaxStepCode) \cup {ExitUnknown}

\* the terminal Run() of a command: delegates to the process runner and
\* reports every code but ExitOK as an error
CommandRun(name, code) ==
    IF code = ExitOK THEN NilErr ELSE [step |-> name, code |-> code]

\* a join that keeps only the first error
Join_FirstOnly(es) ==
    IF SelectSeq(es, LAMBDA e : e # NilErr) = <<>> THEN <<>>
    ELSE <<Head(SelectSeq(es, LAMBDA e : e # NilErr))>>

\* errors.Join: the non-nil errors in argument order; nil (the empty
\* sequence) when there is none
Join(es) == SelectSeq(es, LAMBDA e : e # NilErr)

IdleDebug ==
    /\ dpc = "idle"
    /\ dryRunD = FALSE
    /\ codes = <<>>
    /\ errs = <<>>
    /\ ranD = <<>>
    /\ retD = <<>>

\* NewDebug (lines 20-22) sets DryRunEnabled to false; the field is exported
\* and the caller may set it before Run
InitDebug ==
    /\ dpc = "setup"
    /\ dryRunD \in BOOLEAN
    /\ codes = <<>>
    /\ errs = <<>>
    /\ ranD = <<>>
    /\ retD = <<>>

\* Debug.Run, lines 28-51: working directory and artifact directory; a
\* failure of either ends the program with os.Exit(1)
DebugSetup ==
    /\ dpc = "setup"
    /\ \E ok \in BOOLEAN : dpc' = IF ok THEN "mandatory" ELSE "exited"
    /\ UNCHANGED <<dryRunD, codes, errs, ranD, retD>>
    /\ UNCHANGED <<runVars, execVars, optVars>>

\* Debug.Run, lines 55-60: the arguments of errors.Join are evaluated left
\* to right, each command running to its end before the next one starts
DebugMandatory ==
    /\ dpc = "mandatory"
    /\ Len(codes) < NumMandatory
    /\ \E c \in StepCodes(dryRunD) : codes' = Append(codes, c)
    /\ ranD' = Append(ranD, Commands[Len(codes) + 1])
    /\ UNCHANGED <<dpc, dryRunD, errs, retD>>
    /\ UNCHANGED <<runVars, execVars, optVars>>

\* DebugJoin that runs the mandatory commands a second time when one failed
DebugJoin_RetryOnce ==
    /\ dpc = "mandatory"
    /\ Len(codes) = NumMandatory
    /\ IF Len(ranD) = NumMandatory
          /\ Join([i \in 1 .. NumMandatory |-> CommandRun(Commands[i], codes[i])]) # <<>>
         THEN /\ codes' = <<>>
              /\ UNCHANGED <<dpc, errs>>
         ELSE /\ errs' = Join([i \in 1 .. NumMandatory |-> CommandRun(Commands[i], codes[i])])
              /\ dpc' = "optional"
              /\ UNCHANGED codes
    /\ UNCHANGED <<dryRunD, ranD, retD>>
    /\ UNCHANGED <<runVars, execVars, optVars>>

\* Debug.Run, lines 54-61: errors.Join of the three results
DebugJoin ==
    /\ dpc = "mandatory"
    /\ Len(codes) = NumMandatory
    /\ errs' = Join([i \in 1 .. NumMandatory |-> CommandRun(Commands[i], codes[i])])
    /\ dpc' = "optional"
    /\ UNCHANGED <<dryRunD, codes, ranD, retD>>
    /\ UNCHANGED <<runVars, execVars, optVars>>

\* DebugOptional with the optional commands run like the mandatory ones
DebugOptional_Joined ==
    /\ dpc = "optional"
    /\ Len(codes) < NumCommands
    /\ \E c \in StepCodes(dryRunD) :
         /\ codes' = Append(codes, c)
         /\ errs' = Join(errs \o <<CommandRun(Commands[Len(codes) + 1], c)>>)
    /\ ranD' = Append(ranD, Commands[Len(codes) + 1])
    /\ UNCHANGED <<dpc, dryRunD, retD>>
    /\ UNCHANGED <<runVars, execVars, optVars>>

\* Debug.Run, lines 64-65: the optional commands; what they return is dropped
DebugOptional ==
    /\ dpc = "optional"
    /\ Len(codes) < NumCommands
    /\ \E c \in StepCodes(dryRunD) : codes' = Append(codes, c)
    /\ ranD' = Append(ranD, Commands[Len(codes) + 1])
    /\ UNCHANGED <<dpc, dryRunD, errs, retD>>
    /\ UNCHANGED <<runVars, execVars, optVars>>

\* Debug.Run, lines 67-68
DebugReturn ==
    /\ dpc = "optional"
    /\ Len(codes) = NumCommands
    /\ retD' = errs
    /\ dpc' = "returned"
    /\ UNCHANGED <<dryRunD, codes, errs, ranD>>
    /\ UNCHANGED <<runVars, execVars, optVars>>

NextDebugRun ==
    \/ DebugSetup
    \/ DebugMandatory
    \/ DebugJoin
    \/ DebugOptional
    \/ DebugReturn

(***************************************************************************)
(* pipelines.Debug.Execute (src/unnamed/part_000)                          *)
(***************************************************************************)
Tasks == {"debug", "sysinfo"}

\* the strings jobs.RunDebug and jobs.RunDebugSysInfo may return
Outputs == {"", "A", "B"}

\* the errors a task may return
TaskErrors(t) == {"nil", t \o " failed"}

\* the report with its two arguments exchanged
Report_Swapped(a, b) == "debug output:\n" \o b \o "\nsystem information:\n" \o a \o "\n"

\* fmt.Sprintf("debug output:\n%s\nsystem information:\n%s\n", a, b), line 48
Report(a, b) == "debug output:\n" \o a \o "\nsystem information:\n" \o b \o "\n"

IdleExec ==
    /\ epc = "idle"
    /\ task = [t \in Tasks |-> "none"]
    /\ debugOutput = ""
    /\ systemInfo = ""
    /\ taskRet = [t \in Tasks |-> [out |-> "", err |-> "nil"]]
    /\ gErr = "nil"
    /\ finished = <<>>
    /\ stdoutE = <<>>
    /\ retE = "nil"

\* Execute, lines 29-31: the zero errgroup.Group and the two empty strings
InitExec ==
    /\ epc = "go1"
    /\ task = [t \in Tasks |-> "none"]
    /\ debugOutput = ""
    /\ systemInfo = ""
    /\ taskRet = [t \in Tasks |-> [out |-> "", err |-> "nil"]]
    /\ gErr = "nil"
    /\ finished = <<>>
    /\ stdoutE = <<>>
    /\ retE = "nil"

\* Execute, line 33: errGroup.Go starts the first goroutine
ExecGoDebug ==
    /\ epc = "go1"
    /\ task' = [task EXCEPT !["debug"] = "running"]
    /\ epc' = "go2"
    /\ UNCHANGED <<debugOutput, systemInfo, taskRet, gErr, finished, stdoutE, retE>>
    /\ UNCHANGED <<runVars, debugVars, optVars>>

\* Execute, line 40: errGroup.Go starts the second goroutine
ExecGoSysInfo ==
    /\ epc = "go2"
    /\ task' = [task EXCEPT !["sysinfo"] = "running"]
    /\ epc' = "wait"
    /\ UNCHANGED <<debugOutput, systemInfo, taskRet, gErr, finished, stdoutE, retE>>
    /\ UNCHANGED <<runVars, debugVars, optVars>>

\* errgroup.Group keeps the first non-nil error a goroutine returns
GroupErr(g, e) == IF e # "nil" /\ g = "nil" THEN e ELSE g

\* the first goroutine, lines 33-37
TaskDebug ==
    /\ task["debug"] = "running"
    /\ \E s \in Outputs, e \in TaskErrors("debug") :
         /\ debugOutput' = s
         /\ taskRet' = [taskRet EXCEPT !["debug"] = [out |-> s, err |-> e]]
         /\ gErr' = GroupErr(gErr, e)
    /\ task' = [task EXCEPT !["debug"] = "done"]
    /\ finished' = Append(finished, "debug")
    /\ UNCHANGED <<epc, systemInfo, stdoutE, retE>>
    /\ UNCHANGED <<runVars, debugVars, optVars>>

\* the second goroutine, lines 40-44
TaskSysInfo ==
    /\ task["sysinfo"] = "running"
    /\ \E s \in Outputs, e \in TaskErrors("sysinfo") :
         /\ systemInfo' = s
         /\ taskRet' = [taskRet EXCEPT !["sysinfo"] = [out |-> s, err |-> e]]
         /\ gErr' = GroupErr(gErr, e)
    /\ task' = [task EXCEPT !["sysinfo"] = "done"]
    /\ finished' = Append(finished, "sysinfo")
    /\ UNCHANGED <<epc, debugOutput, stdoutE, retE>>
    /\ UNCHANGED <<runVars, debugVars, optVars>>

\* ExecWait returning as soon as one goroutine has ended
ExecWait_FirstDone ==
    /\ epc = "wait"
    /\ \E t \in Tasks : task[t] = "done"
    /\ retE' = gErr
    /\ epc' = "write"
    /\ UNCHANGED <<task, debugOutput, systemInfo, taskRet, gErr, finished, stdoutE>>
    /\ UNCHANGED <<runVars, debugVars, optVars>>

\* Execute, line 47: errGroup.Wait blocks until every goroutine has ended
ExecWait ==
    /\ epc = "wait"
    /\ \A t \in Tasks : task[t] = "done"
    /\ retE' = gErr
    /\ epc' = "write"
    /\ UNCHANGED <<task, debugOutput, systemInfo, taskRet, gErr, finished, stdoutE>>
    /\ UNCHANGED <<runVars, debugVars, optVars>>

\* Execute, lines 48-50: write the report, return the error of Wait
ExecWrite ==
    /\ epc = "write"
    /\ stdoutE' = Append(stdoutE, Report(debugOutput, systemInfo))
    /\ epc' = "returned"
    /\ UNCHANGED <<task, debugOutput, systemInfo, taskRet, gErr, finished, retE>>
    /\ UNCHANGED <<runVars, debugVars, optVars>>

NextExecute ==
    \/ ExecGoDebug
    \/ ExecGoSysInfo
    \/ TaskDebug
    \/ TaskSysInfo
    \/ ExecWait
    \/ ExecWrite

(***************************************************************************)
(* package shell: Options and the option functions (part_001, 113-174)     *)
(***************************************************************************)
\* newOptions applies at most MaxOptions option functions
MaxOptions == 3

\* new(Options), line 131: every field at its zero value
ZeroOptions ==
    [dryRunEnabled |-> FALSE, stdin |-> "nil", stdout |-> "nil", stderr |-> "nil",
     ctx |-> "nil"]

\* WithDryRun building a fresh Options value instead of writing its field
WithDryRun_Fresh(enabled, op) == [ZeroOptions EXCEPT !.dryRunEnabled = enabled]

\* WithDryRun, lines 140-144
WithDryRun(enabled, op) == [op EXCEPT !.dryRunEnabled = enabled]

\* WithIO, lines 147-153
WithIO(stdin, stdout, stderr, op) ==
    [op EXCEPT !.stdin = stdin, !.stdout = stdout, !.stderr = stderr]

\* WithStdin, lines 156-160
WithStdin(r, op) == [op EXCEPT !.stdin = r]

\* WithStdout with the assignment of its neighbour: it sets stderr
WithStdout_SetsStderr(w, op) == [op EXCEPT !.stderr = w]

\* WithStdout, lines 163-167
WithStdout(w, op) == [op EXCEPT !.stdout = w]

\* WithStderr, lines 170-174
WithStderr(w, op) == [op EXCEPT !.stderr = w]

\* an option function as a caller wrote it: the constructor and its arguments
\* (the arguments a constructor does not take stay at their zero value)
OptionFunc(fn, enabled, stdin, stdout, stderr) ==
    [fn |-> fn, enabled |-> enabled, stdin |-> stdin, stdout |-> stdout,
     stderr |-> stderr]

IdleOptions ==
    /\ opts = ZeroOptions
    /\ applied = <<>>

\* newOptions, line 131
InitOptions ==
    /\ opts = ZeroOptions
    /\ applied = <<>>

\* Options.apply, lines 123-127: one turn of the loop, for WithDryRun(enabled)
ApplyWithDryRun ==
    /\ Len(applied) < MaxOptions
    /\ \E enabled \in BOOLEAN :
         /\ opts' = WithDryRun(enabled, opts)
         /\ applied' = Append(applied, OptionFunc("WithDryRun", enabled, "nil", "nil", "nil"))
    /\ UNCHANGED <<runVars, debugVars, execVars>>

\* one turn of the loop for WithIO(stdin, stdout, stderr)
ApplyWithIO ==
    /\ Len(applied) < MaxOptions
    /\ \E r \in Streams("in"), w \in Streams("out"), e \in Streams("err") :
         /\ opts' = WithIO(r, w, e, opts)
         /\ applied' = Append(applied, OptionFunc("WithIO", FALSE, r, w, e))
    /\ UNCHANGED <<runVars, debugVars, execVars>>

\* one turn of the loop for WithStdin(r)
ApplyWithStdin ==
    /\ Len(applied) < MaxOptions
    /\ \E r \in Streams("in") :
         /\ opts' = WithStdin(r, opts)
         /\ applied' = Append(applied, OptionFunc("WithStdin", FALSE, r, "nil", "nil"))
    /\ UNCHANGED <<runVars, debugVars, execVars>>

\* one turn of the loop for WithStdout(w)
ApplyWithStdout ==
    /\ Len(applied) < MaxOptions
    /\ \E w \in Streams("out") :
         /\ opts' = WithStdout(w, opts)
         /\ applied' = Append(applied, OptionFunc("WithStdout", FALSE, "nil", w, "nil"))
    /\ UNCHANGED <<runVars, debugVars, execVars>>

\* one turn of the loop for WithStderr(w)
ApplyWithStderr ==
    /\ Len(applied) < MaxOptions
    /\ \E w \in Streams("err") :
         /\ opts' = WithStderr(w, opts)
         /\ applied' = Append(applied, OptionFunc("WithStderr", FALSE, "nil", "nil", w))
    /\ UNCHANGED <<runVars, debugVars, execVars>>

NextOptions ==
    \/ ApplyWithDryRun
    \/ ApplyWithIO
    \/ ApplyWithStdin
    \/ ApplyWithStdout
    \/ ApplyWithStderr

(***************************************************************************)
(* Specifications                                                          *)
(***************************************************************************)
Init == InitRun /\ IdleDebug /\ IdleExec /\ IdleOptions
Spec == Init /\ [][Next]_vars

InitDebugRun == IdleRun /\ InitDebug /\ IdleExec /\ IdleOptions
SpecDebugRun == InitDebugRun /\ [][NextDebugRun]_vars

InitExecute == IdleRun /\ IdleDebug /\ InitExec /\ IdleOptions
SpecExecute == InitExecute /\ [][NextExecute]_vars

InitOptionsApply == IdleRun /\ IdleDebug /\ IdleExec /\ InitOptions
SpecOptions == InitOptionsApply /\ [][NextOptions]_vars

\* one call of run and one Debug.Run side by side in one program; the call
\* of run is one with the streams left unset
InitRunAndDebug ==
    /\ InitRun
    /\ cmd = "grype"
    /\ o.stdin = "nil" /\ o.stdout = "nil" /\ o.stderr = "nil"
    /\ InitDebug
    /\ IdleExec
    /\ IdleOptions
NextRunAndDebug == Next \/ NextDebugRun
SpecRunAndDebug == InitRunAndDebug /\ [][NextRunAndDebug]_vars

\* shell.run under the scheduling of the Go runtime: a goroutine that can take
\* a step is not held back for ever. Nothing is assumed about the child
\* process or the token.
FairSpec ==
    /\ Spec
    /\ WF_vars(RunEntry)
    /\ WF_vars(RunStart)
    /\ WF_vars(RunDefaultCtx)
    /\ WF_vars(RunGo)
    /\ WF_vars(RunSelectCancel)
    /\ WF_vars(RunSelectDone)
    /\ WF_vars(WaitReturn)
    /\ WF_vars(WaitSend)

(***************************************************************************)
(* Properties of shell.run, checked under Spec                             *)
(***************************************************************************)
Happened(e) == \E i \in 1 .. Len(events) : events[i] = e

\* the place of event e in the history, 0 when it has not happened
Pos(e) == IF Happened(e) THEN CHOOSE i \in 1 .. Len(events) : events[i] = e ELSE 0

Returned == pc = "returned"

\* the process was spawned and the token fired while the child had not
\* ended on its own
FiredBeforeExit ==
    /\ Happened("start")
    /\ Happened("fire")
    /\ (Happened("exit") => Pos("fire") < Pos("exit"))

\* the process was spawned and ended on its own while the token had not fired
ExitedBeforeFire ==
    /\ Happened("start")
    /\ Happened("exit")
    /\ (Happened("fire") => Pos("exit") < Pos("fire"))

\* C1: if the cancellation token fires strictly before the child process
\* terminates, run returns 231 when the one kill attempt succeeds and 230
\* when it fails, and never the child's exit code, 0 or 232.
C1_CancelBeforeExit ==
    (Returned /\ FiredBeforeExit) =>
        \/ ret = ExitContextCancel /\ Happened("killok")
        \/ ret = ExitKillFailure /\ Happened("killfail")

\* the result the completion branch owes to a child that ended with status
\* st: the status itself unless it is 0, and for a clean exit 0, or 232 when
\* the wait reported an error that is no exit error
ResultOfWait(st, e) ==
    IF st # 0 THEN st ELSE IF e.kind = "other" THEN ExitUnknown ELSE ExitOK

\* C2 as stated: if the child process terminates strictly before the token
\* fires, run returns the child's own non-zero exit code, or 0 if it exited
\* cleanly, in every interleaving, and never 230 or 231.
C2_ExitBeforeCancel_Original ==
    (Returned /\ ExitedBeforeFire) =>
        /\ ret = proc.status
        /\ ret \notin {ExitKillFailure, ExitContextCancel}

\* the token had not fired when the select of run chose its branch
NotFiredAtSelect ==
    Happened("return") /\ (Happened("fire") => Pos("return") < Pos("fire"))

\* C2 as amended: if the process was spawned and the token has not fired by
\* the time the select of run chooses, run takes the completion branch,
\* attempts no kill, and returns the result of the wait for the child that
\* has ended: its own status when that is not 0, else 0, or 232 when the
\* wait reported another error.
C2_ExitBeforeCancel ==
    (Returned /\ Happened("start") /\ NotFiredAtSelect) =>
        /\ Happened("exit")
        /\ Happened("recv")
        /\ ~Happened("killok") /\ ~Happened("killfail")
        /\ ret = ResultOfWait(proc.status, runError)

\* C2 witness: the child ended with a status of its own, run returned it,
\* and the token fired only afterwards
C2_Witness ==
    /\ Returned
    /\ Happened("recv")
    /\ Happened("fire")
    /\ Pos("return") < Pos("fire")
    /\ proc.status = 1
    /\ ret = 1

\* C3: whenever both the token has fired and the completion signal is
\* available when the select of run chooses, run takes the cancellation
\* branch: it returns 231 on a successful kill (230 on a failed one), never
\* the result of the wait.
C3_CancelWinsTie ==
    (Returned /\ selReady.ctx /\ selReady.done) =>
        /\ ~Happened("recv")
        /\ ret \in {ExitContextCancel, ExitKillFailure}
        /\ (Happened("killok") => ret = ExitContextCancel)

\* C4: with dryRun set, run never starts a process, never starts the
\* background wait task, and returns 0, whatever the program and whether or
\* not a token is set or has fired.
C4_DryRun ==
    oIn.dryRunEnabled =>
        /\ proc.state = "none"
        /\ waitPc = "none"
        /\ ~Happened("start") /\ ~Happened("startfail")
        /\ pc \in {"entry", "returned"}
        /\ (Returned => ret = ExitOK)

\* C4 witness: a dry run of a binary that cannot be spawned, with a token
\* that fired before run was entered, has returned
C4_Witness ==
    /\ oIn.dryRunEnabled
    /\ cmd = "nonexistent"
    /\ oIn.ctx = "token"
    /\ Happened("fire") /\ Pos("fire") < Pos("log")
    /\ Returned

\* the code is one the child itself may pass through under the taxonomy
IsChildCode(c) == (1 <= c /\ c <= 229) \/ c >= 233

\* C5: every returned code is unambiguous: 0 only for a dry run or a clean
\* exit, 230 only for a fired token and a failed kill, 231 only for a fired
\* token and a successful kill, 232 only for a spawn failure or a wait
\* error that is no exit error, and anything else is the child's own exit
\* code in 1-229 or 233+.
C5_Taxonomy ==
    Returned =>
        /\ ret = ExitOK =>
             \/ oIn.dryRunEnabled
             \/ Happened("recv") /\ proc.status = 0 /\ runError.kind = "nil"
        /\ ret = ExitKillFailure => Happened("fire") /\ Happened("killfail")
        /\ ret = ExitContextCancel => Happened("fire") /\ Happened("killok")
        /\ ret = ExitUnknown =>
             \/ Happened("startfail")
             \/ Happened("recv") /\ runError.kind = "other"
        /\ ret \notin {ExitOK, ExitKillFailure, ExitContextCancel, ExitUnknown} =>
             Happened("recv") /\ ret = proc.status /\ IsChildCode(ret)

\* C6: when dryRun is not set and the spawn fails, run returns 232 at once:
\* no wait task, no kill, and the token is not consulted.
C6_SpawnFailure ==
    Happened("startfail") =>
        /\ Returned
        /\ ret = ExitUnknown
        /\ ~oIn.dryRunEnabled
        /\ waitPc = "none"
        /\ proc.state = "none"
        /\ ~Happened("killok") /\ ~Happened("killfail")
        /\ selReady = NotSelected

\* C6 witness: the spawn of an existing binary failed after the token had
\* fired
C6_Witness ==
    /\ Happened("startfail")
    /\ cmd = "grype"
    /\ Happened("fire") /\ Pos("fire") < Pos("startfail")
    /\ Returned

(***************************************************************************)
(* Properties of Debug.Run, checked under SpecDebugRun                     *)
(***************************************************************************)
ReturnedD == dpc = "returned"

Mandatory == 1 .. NumMandatory

\* the place of a command in the source order of Debug.Run
IndexOf(name) == CHOOSE i \in 1 .. NumCommands : Commands[i] = name

C8_StopsAtFirstFailure ==
    \A j \in 1 .. Len(ranD) : \A i \in 1 .. (j - 1) : codes[i] = ExitOK

\* the failures of the mandatory commands from place i on, in source order
RECURSIVE MandatoryFailuresFrom(_)
MandatoryFailuresFrom(i) ==
    IF i > NumMandatory THEN <<>>
    ELSE (IF codes[i] = ExitOK THEN <<>>
          ELSE <<[step |-> Commands[i], code |-> codes[i]]>>)
         \o MandatoryFailuresFrom(i + 1)

\* C9: failures of the optional commands never surface: whatever podman
\* version and docker version end with, errs stays, and Debug.Run returns,
\* exactly the combined error of the mandatory commands.
C9_OptionalAbsorbed ==
    /\ dpc \in {"optional", "returned"} => errs = MandatoryFailuresFrom(1)
    /\ ReturnedD => retD = MandatoryFailuresFrom(1)

\* C9 witness: both optional commands failed, one of them with 232, the
\* mandatory ones succeeded, and Debug.Run returned nil
C9_Witness ==
    /\ ReturnedD
    /\ \A i \in Mandatory : codes[i] = ExitOK
    /\ codes[4] = ExitUnknown
    /\ codes[5] # ExitOK
    /\ retD = <<>>

(***************************************************************************)
(* Properties of Debug.Execute, checked under SpecExecute                  *)
(***************************************************************************)
\* C10: when the sample task returns A and the system-info task returns B,
\* the report written is exactly "debug output:\nA\nsystem information:\nB\n"
\* whichever task finishes first, and it is written exactly once: nothing
\* is written before Execute is done with both tasks.
C10_Report ==
    /\ Len(stdoutE) <= 1
    /\ epc # "returned" => stdoutE = <<>>
    /\ (epc = "returned" /\ taskRet["debug"].out = "A" /\ taskRet["sysinfo"].out = "B")
         => stdoutE = <<"debug output:\nA\nsystem information:\nB\n">>

\* C10 witness: the system-info task finished first, the tasks returned A
\* and B, and the report is out
C10_Witness ==
    /\ epc = "returned"
    /\ finished = <<"sysinfo", "debug">>
    /\ taskRet["debug"].out = "A"
    /\ taskRet["sysinfo"].out = "B"
    /\ Len(stdoutE) = 1

\* the error r carries the failure e of a task: the error errGroup.Wait
\* returns is one task's error as it is, never a combination, so it carries
\* e exactly when it is e
Carries(r, e) == r = e

\* C11: the error the concurrent batch of Debug.Execute returns carries the
\* error of every failing task (sample task before system-info task); when
\* both tasks fail it is the same in every interleaving and carries both.
C11_AllTaskErrors ==
    epc = "returned" =>
        /\ \A t \in Tasks : taskRet[t].err # "nil" => Carries(retE, taskRet[t].err)
        /\ (retE = "nil") <=> (\A t \in Tasks : taskRet[t].err = "nil")

(***************************************************************************)
(* Properties of the option functions, checked under SpecOptions           *)
(***************************************************************************)
Fields == {"dryRunEnabled", "stdin", "stdout", "stderr", "ctx"}

\* the fields an option function is about
Concern(fn) ==
    CASE fn = "WithDryRun" -> {"dryRunEnabled"}
      [] fn = "WithIO" -> {"stdin", "stdout", "stderr"}
      [] fn = "WithStdin" -> {"stdin"}
      [] fn = "WithStdout" -> {"stdout"}
      [] fn = "WithStderr" -> {"stderr"}

\* the value the caller gave option function f for field fld
Given(f, fld) == IF fld = "dryRunEnabled" THEN f.enabled ELSE f[fld]

\* what the last function of the history that is about fld gave for it; the
\* zero value when no function is about fld
LastGiven(fld) ==
    LET about == {i \in 1 .. Len(applied) : fld \in Concern(applied[i].fn)}
    IN IF about = {} THEN ZeroOptions[fld]
       ELSE Given(applied[CHOOSE i \in about : \A k \in about : k <= i], fld)

\* the Options value after option function f is applied to op
Applied(f, op) ==
    CASE f.fn = "WithDryRun" -> WithDryRun(f.enabled, op)
      [] f.fn = "WithIO" -> WithIO(f.stdin, f.stdout, f.stderr, op)
      [] f.fn = "WithStdin" -> WithStdin(f.stdin, op)
      [] f.fn = "WithStdout" -> WithStdout(f.stdout, op)
      [] f.fn = "WithStderr" -> WithStderr(f.stderr, op)

\* C12: applying option functions is last-write-wins per concern: every
\* field holds what the last function about it gave (the zero value when
\* there is none); and applying the function applied last once more leaves
\* the Options as they are.
C12_LastWriteWins ==
    /\ \A fld \in Fields : opts[fld] = LastGiven(fld)
    /\ applied # <<>> => Applied(applied[Len(applied)], opts) = opts

\* C12 witness: the same concern was written three times, twice in a row
\* with the same function, and the last write is what the field holds
C12_Witness ==
    /\ Len(applied) = 3
    /\ applied[1] = OptionFunc("WithIO", FALSE, "in", "out", "err")
    /\ applied[2] = OptionFunc("WithStdout", FALSE, "nil", "nil", "nil")
    /\ applied[3] = applied[2]
    /\ opts.stdout = "nil"
    /\ opts.stdin = "in"

\* C13: an option function changes only the fields of its own concern: one
\* turn of apply leaves every field the applied function is not about as it
\* was.
C13_Independent ==
    [][\A fld \in Fields :
         fld \notin Concern(applied'[Len(applied')].fn) => opts'[fld] = opts[fld]]_optVars

\* C13 witness: WithDryRun, WithStdin and WithStderr were applied after one
\* another and each kept what the others had set
C13_Witness ==
    /\ Len(applied) = 3
    /\ applied[1].fn = "WithStdin"
    /\ applied[2].fn = "WithDryRun"
    /\ applied[3].fn = "WithStderr"
    /\ opts = [dryRunEnabled |-> TRUE, stdin |-> "in", stdout |-> "nil",
               stderr |-> "err", ctx |-> "nil"]

(***************************************************************************)
(* More properties of Debug.Execute, checked under SpecExecute             *)
(***************************************************************************)
\* C14: Execute neither writes the report nor returns before both tasks
\* have finished, and a failing task never cancels or skips the other: both
\* tasks are started and both have run to their end when Execute is past
\* the wait, whichever failed and in whatever order they finished.
C14_JoinBarrier ==
    /\ (epc \in {"write", "returned"} \/ stdoutE # <<>>) =>
         /\ \A t \in Tasks : task[t] = "done"
         /\ Len(finished) = Cardinality(Tasks)
         /\ \A t \in Tasks : \E i \in 1 .. Len(finished) : finished[i] = t
    /\ \A t \in Tasks :
         task[t] = "none" => (t = "debug" /\ epc = "go1") \/ (t = "sysinfo" /\ epc \in {"go1", "go2"})

\* C14 witness: the sample task failed first; the system-info task still ran
\* to its end, and Execute wrote the report and returned after both
C14_Witness ==
    /\ epc = "returned"
    /\ finished = <<"debug", "sysinfo">>
    /\ taskRet["debug"].err # "nil"
    /\ taskRet["sysinfo"].out = "B"
    /\ stdoutE = <<"debug output:\n\nsystem information:\nB\n">>

(***************************************************************************)
(* Properties of shell.run under fair scheduling, checked under FairSpec   *)
(***************************************************************************)
\* run has returned through the cancellation branch of its select
CancelReturned == Returned /\ (Happened("killok") \/ Happened("killfail"))

\* C15: the background wait task is not leaked when cancellation comes
\* first: after run has returned through the cancellation branch the send
\* on doneChan can always be made without a receiver, and once the child has
\* ended the task gets to its end.
C15_NoLeak ==
    /\ [](CancelReturned /\ waitPc = "sending" => ENABLED WaitSend)
    /\ (CancelReturned /\ proc.state = "exited") ~> (waitPc = "finished")

\* C15 witness: run returned through the cancellation branch, and the task
\* has ended with its signal left in the buffer
C15_Witness ==
    /\ CancelReturned
    /\ waitPc = "finished"
    /\ doneChan = <<"done">>

\* C16: once the child has ended or the token has fired, run returns; and
\* after a successful spawn run does not return before one of the two has
\* happened.
C16_ReturnsOnEvent ==
    /\ [](Returned /\ Happened("start") =>
            \/ Happened("exit") /\ Pos("exit") < Pos("return")
            \/ Happened("fire") /\ Pos("fire") < Pos("return"))
    /\ (Happened("start") /\ (proc.state = "exited" \/ CtxDone)) ~> Returned

\* C16 witness: without a token, run returned once the child had ended
C16_Witness ==
    /\ Returned
    /\ oIn.ctx = "nil"
    /\ Happened("recv")
    /\ Pos("exit") < Pos("return")

(***************************************************************************)
(* The Options value handed to run, checked under Spec                     *)
(***************************************************************************)
\* C17 as stated: run changes no field of the Options value it is handed,
\* on any path.
C17_ReadOnly_Original == o = oIn

\* C17 as amended: run changes none of dryRunEnabled, stdin, stdout and
\* stderr on any path, and it keeps a context that is set; a context that is
\* not set it replaces by the background context, and only after the process
\* has been spawned (never on the dry-run and spawn-failure paths).
C17_ReadOnly ==
    /\ \A fld \in {"dryRunEnabled", "stdin", "stdout", "stderr"} : o[fld] = oIn[fld]
    /\ oIn.ctx # "nil" => o.ctx = oIn.ctx
    /\ oIn.ctx = "nil" => o.ctx \in {"nil", "background"}
    /\ o.ctx # oIn.ctx => Happened("start")
    /\ (oIn.dryRunEnabled \/ Happened("startfail")) => o = oIn

\* C17 witness: run has returned the child's result; the caller's streams
\* and dry-run flag are as they were, the unset context is now the
\* background context
C17_Witness ==
    /\ Returned
    /\ Happened("recv")
    /\ oIn = [dryRunEnabled |-> FALSE, stdin |-> "in", stdout |-> "out",
              stderr |-> "err", ctx |-> "nil"]
    /\ o = [oIn EXCEPT !.ctx = "background"]

(***************************************************************************)
(* No retry, checked under SpecRunAndDebug                                 *)
(***************************************************************************)
Count(e) == Cardinality({i \in 1 .. Len(events) : events[i] = e})

\* the state of the pipeline run. Debug.Run is not-started until it is past
\* its set-up; a set-up that fails ends the program before the pipeline has
\* started
Phase ==
    CASE dpc \in {"setup", "exited"} -> "not-started"
      [] dpc \in {"mandatory", "optional"} -> "running"
      [] dpc = "returned" /\ retD = <<>> -> "completed-success"
      [] dpc = "returned" /\ retD # <<>> -> "completed-with-errors"

PhaseSteps ==
    {<<"not-started", "running">>, <<"running", "completed-success">>,
     <<"running", "completed-with-errors">>}

\* C18: nothing is re-attempted: in one Debug.Run each of the five commands
\* is run at most once whatever its outcome, in one call of run the process
\* is spawned at most once and the kill attempted at most once, and the
\* pipeline run only moves not-started -> running -> completed-success or
\* completed-with-errors.
C18_NoRetry ==
    /\ [](/\ Len(ranD) <= NumCommands
          /\ \A i, j \in 1 .. Len(ranD) : i # j => ranD[i] # ranD[j]
          /\ Count("start") + Count("startfail") <= 1
          /\ Count("killok") + Count("killfail") <= 1)
    /\ [][Phase' # Phase => <<Phase, Phase'>> \in PhaseSteps]_vars

\* C18 witness: a mandatory command failed and a kill failed; Debug.Run has
\* returned the failure, run has returned 230, each after a single attempt
C18_Witness ==
    /\ ReturnedD
    /\ codes[1] # ExitOK
    /\ Len(retD) = 1
    /\ Len(ranD) = NumCommands
    /\ Returned
    /\ ret = ExitKillFailure
    /\ Count("killfail") = 1

(***************************************************************************)
(* The log entry and the unset token, checked under Spec                   *)
(***************************************************************************)
\* C19: every call of run records exactly one "shell exec" entry naming the
\* command and the dry-run flag, before any process is spawned and before
\* it returns, so that a dry run shows although it spawns nothing.
C19_OneLogEntry ==
    /\ pc = "entry" => slog = <<>>
    /\ pc # "entry" =>
         slog = <<[msg |-> "shell exec", dry_run |-> oIn.dryRunEnabled, command |-> cmd]>>
    /\ \A e \in {"start", "startfail", "return"} :
         Happened(e) => Happened("log") /\ Pos("log") < Pos(e)

\* C19 witness: a dry run has returned; nothing was spawned and the entry is
\* there
C19_Witness ==
    /\ Returned
    /\ proc.state = "none"
    /\ slog = <<[msg |-> "shell exec", dry_run |-> TRUE, command |-> "nonexistent"]>>

\* C20: for Options built from the exported option functions alone the token
\* is never set (none of them writes ctx), so run puts the background
\* context in its place: the cancellation branch is never taken, run never
\* returns 230 or 231, and after a successful spawn run returns only when
\* the child has ended.
C20_NoToken ==
    oIn.ctx = "nil" =>
        /\ ~Happened("fire") /\ ~Happened("killok") /\ ~Happened("killfail")
        /\ ~selReady.ctx
        /\ pc = "select" => o.ctx = "background"
        /\ Returned => ret \notin {ExitKillFailure, ExitContextCancel}
        /\ (Returned /\ Happened("start")) =>
             Happened("exit") /\ Pos("exit") < Pos("return")

====
